---- MODULE Spec2Model ----
(***************************************************************************)
(* Nested transactions of gaphor (src/gaphor/transaction.py): the          *)
(* process-wide stack Transaction._stack, the per-instance flag            *)
(* _need_rollback, the scoped use (with Transaction(...)), the             *)
(* @transactional decorator and the global subscribers registry.           *)
(*                                                                         *)
(* Transactions are numbered 1, 2, ... in order of construction.  A        *)
(* program is any sequence of constructor calls, commit / rollback /       *)
(* mark_rollback calls on transactions the caller holds a reference to,    *)
(* scoped regions that are entered and left (normally or by an error),     *)
(* errors raised and caught, and add / discard calls on the registry.      *)
(* The registry's listeners may raise (the set raising); gestures of the   *)
(* tools of src/gaphor/diagram/tools/txtool.py begin and end transactions  *)
(* through the TxData their group shares.                                  *)
(***************************************************************************)
EXTENDS Integers, Sequences, FiniteSets, TLC

\* Bounds of the model.
MaxTx == 3
MaxDepth == 2
MaxGestures == 5

\* Transactions are constructed by direct calls and scopes (at most MaxTx)
\* or by gestures (at most MaxGestures).
TxIds == 1..(IF MaxTx > MaxGestures THEN MaxTx ELSE MaxGestures)
Handlers == {"h1", "h2"}
EventManagers == {"em1", "em2"}
Results == {"r1", "r2"}
TxDatas == {"d1", "d2"}
Tools == {"a1", "a2", "a3", "b1"}

VARIABLES
    stack,           \* Transaction._stack, bottom first
    need_rollback,   \* tx -> Transaction._need_rollback
    event_manager,   \* tx -> the sink the transaction is bound to
    how,             \* tx -> "none" (not constructed), "manual", "with", "txnal"
    ntx,             \* number of transactions constructed so far
    subscribers,     \* handler -> number of times _subscribers holds it
    frames,          \* scoped regions entered and not yet left, outermost first
    exc,             \* the error propagating now (NoExc when none)
    log,             \* every sink.handle(event) call made so far, in order
    calls,           \* handler -> its invocations by the latest subscribers.handle
    result,          \* what the last @transactional call returned ("none": nothing yet)
    added,           \* handlers whose latest registry call was add (observation)
    closed,          \* transactions whose commit / rollback / scope exit closed them
    chainStart,      \* Len(log) when the current (or last) nesting chain started
    chainFirst,      \* first transaction of the current (or last) nesting chain
    shape,           \* "opening", "closing": constructions, then successful closes only
    marked,          \* mark_rollback ran on an open transaction during the chain
    touched,         \* any rollback request or error exit during the chain
    errExit,         \* a scoped region was left by an error during the chain
    seen,            \* the depth of the stack during the latest sink.handle call
    raising,         \* the listeners that raise when they are invoked
    order,           \* the order in which the set _subscribers iterates
    txs,             \* TxData -> TxData.txs, first begun first
    active           \* the tools whose gesture has begun and not ended

vars == <<stack, need_rollback, event_manager, how, ntx, subscribers, frames,
          exc, log, calls, result, added, closed, chainStart, chainFirst, shape, marked,
          touched, errExit, seen, raising, order, txs, active>>

\* What the transaction code does not touch: the listeners and the tools.
env == <<raising, order, txs, active>>

----------------------------------------------------------------------------
\* Sequences.

Top(s) == s[Len(s)]

Front(s) == SubSeq(s, 1, Len(s) - 1)

Range(s) == {s[i] : i \in DOMAIN s}

\* Errors are values with an identity: the transaction whose call raised them.
NoExc == [type |-> "none", reason |-> "", by |-> 0]

AppError == [type |-> "AppError", reason |-> "", by |-> 0]

TransactionError(reason, t) == [type |-> "TransactionError", reason |-> reason, by |-> t]

\* What a listener raises when it fails.
ListenerError == [type |-> "ListenerError", reason |-> "", by |-> 0]

\* assert self.txs in TxData.commit.
AssertionError == [type |-> "AssertionError", reason |-> "", by |-> 0]

\* _close, lines 99 and 102-104: the two errors it raises.
EmptyError(t) == TransactionError("No Transaction on stack.", t)

NotTopError(t) ==
    TransactionError("Transaction on stack is not the transaction being closed.", t)

----------------------------------------------------------------------------
\* The registry (_SubscribersHandler).

NoCalls == [h \in Handlers |-> 0]

\* A list in place of the set: every add appends.
RegistryAppend(subs, h) == [subs EXCEPT ![h] = @ + 1]

\* set.add: the handler is held once, however often it is added.
RegistryAdd(subs, h) == [subs EXCEPT ![h] = 1]

\* set.discard: the handler is no longer held; no error when it was not.
RegistryDiscard(subs, h) == [subs |-> [subs EXCEPT ![h] = 0], err |-> NoExc]

\* The orders in which a set of the handlers can iterate.
Orders == {o \in [1..Cardinality(Handlers) -> Handlers] : Range(o) = Handlers}

\* handle: for o in self._subscribers: o(event).  The listeners the registry
\* holds are invoked in the order the set iterates, once per time they are
\* held; the error of the first one that raises leaves the loop.
RegistryHandle(subs, bad, ord) ==
    LET held == {i \in DOMAIN ord : subs[ord[i]] > 0}
        failing == {i \in held : ord[i] \in bad}
        stop == IF failing = {}
                THEN Len(ord)
                ELSE CHOOSE i \in failing : \A j \in failing : i <= j IN
    [calls |-> [h \in Handlers |->
                  IF \E i \in held : i <= stop /\ ord[i] = h
                  THEN (IF h \in bad THEN 1 ELSE subs[h])
                  ELSE 0],
     err |-> IF failing = {} THEN NoExc ELSE ListenerError]

\* The deliveries made so far, as the methods extend them: the log, the
\* invocations and the stack depth of the latest handle call, and its error.
Out == [log |-> log, calls |-> calls, seen |-> seen, err |-> NoExc]

\* The stack as a sink finds it while it handles a notification.
Sees(stk, out) == [out EXCEPT !.seen = Len(stk)]

\* Every notification goes to one event manager, whatever the transaction
\* is bound to.
HandleDefaultSink(sink, ev, subs, out) ==
    [out EXCEPT !.log = Append(@, [sink |-> "em1", ev |-> ev]),
                !.err = NoExc]

\* Transaction._handle: self.event_manager.handle(event).  An event manager's
\* own listeners are not part of the model: it delivers without an error.
Handle(sink, ev, subs, out) ==
    LET r == RegistryHandle(subs, raising, order) IN
    [out EXCEPT !.log = Append(@, [sink |-> sink, ev |-> ev]),
                !.calls = IF sink = "subscribers" THEN r.calls ELSE @,
                !.err = IF sink = "subscribers" THEN r.err ELSE NoExc]

----------------------------------------------------------------------------
\* The methods of Transaction, as functions of the state they read.

\* The flag kept on the class, like _stack: a new transaction sees the old one.
NewFlagShared(nr, t) == [nr EXCEPT ![t] = \E u \in DOMAIN nr : nr[u]]

\* The constructor clears the flag of every transaction.
NewFlagClearsAll(nr, t) == [u \in DOMAIN nr |-> FALSE]

\* __init__, line 53.
NewFlag(nr, t) == [nr EXCEPT ![t] = FALSE]

\* Begin without the test of the stack.
BeginAlways(stk, sink, subs, out) ==
    Handle(sink, "TransactionBegin", subs, Sees(stk, out))

\* __init__, lines 54-55: Begin only when the stack is empty.
Begin(stk, sink, subs, out) ==
    IF stk = <<>>
    THEN Handle(sink, "TransactionBegin", subs, Sees(stk, out))
    ELSE out

\* __init__, line 56.
Push(stk, t) == Append(stk, t)

\* The new transaction is on the stack whatever the delivery of Begin did.
InitTxPushOnError(t, stk, nr, sink, subs, out) ==
    LET b == Begin(stk, sink, subs, out) IN
    [flags |-> NewFlag(nr, t), out |-> b, err |-> b.err, stack |-> Push(stk, t)]

\* __init__ as a whole: the flag, Begin on an empty stack, then the push,
\* which an error of the sink leaves out.
InitTx(t, stk, nr, sink, subs, out) ==
    LET b == Begin(stk, sink, subs, out) IN
    [flags |-> NewFlag(nr, t), out |-> b, err |-> b.err,
     stack |-> IF b.err # NoExc THEN stk ELSE Push(stk, t)]

\* Only the innermost transaction is flagged.
MarkTopOnly(stk, nr) == [t \in DOMAIN nr |-> nr[t] \/ (stk # <<>> /\ t = Top(stk))]

\* The innermost transaction is left out: only the enclosing ones are flagged.
MarkEnclosingOnly(stk, nr) ==
    [t \in DOMAIN nr |-> nr[t] \/ (t \in Range(stk) /\ t # Top(stk))]

\* mark_rollback: every transaction on the stack is flagged.
MarkRollback(stk, nr) == [t \in DOMAIN nr |-> nr[t] \/ t \in Range(stk)]

\* The popped entry is not appended again before the error.
CloseNoPushBack(stk, t) ==
    IF stk = <<>>
    THEN [err |-> EmptyError(t), stack |-> stk]
    ELSE IF Top(stk) # t
         THEN [err |-> NotTopError(t), stack |-> Front(stk)]
         ELSE [err |-> NoExc, stack |-> Front(stk)]

\* The IndexError of the empty stack is swallowed.
CloseIgnoreEmpty(stk, t) ==
    IF stk = <<>>
    THEN [err |-> NoExc, stack |-> stk]
    ELSE IF Top(stk) # t
         THEN [err |-> NotTopError(t), stack |-> Append(Front(stk), Top(stk))]
         ELSE [err |-> NoExc, stack |-> Front(stk)]

\* No test that the popped entry is self.
CloseAnyTop(stk, t) ==
    IF stk = <<>>
    THEN [err |-> EmptyError(t), stack |-> stk]
    ELSE [err |-> NoExc, stack |-> Front(stk)]

\* _close: pop; an empty stack and a popped entry other than self are errors,
\* the latter after the popped entry is appended again.
Close(stk, t) ==
    IF stk = <<>>
    THEN [err |-> EmptyError(t), stack |-> stk]
    ELSE IF Top(stk) # t
         THEN [err |-> NotTopError(t), stack |-> Append(Front(stk), Top(stk))]
         ELSE [err |-> NoExc, stack |-> Front(stk)]

\* commit, lines 68-71: the event that the emptied stack delivers.
Terminal(flag) == IF flag THEN "TransactionRollback" ELSE "TransactionCommit"

\* commit without the test of the stack: every close notifies.
CommitTxAlwaysNotify(t, stk, nr, em, subs, out) ==
    LET c == Close(stk, t)
        o == Handle(em[t], Terminal(nr[t]), subs, Sees(c.stack, out)) IN
    IF c.err # NoExc
    THEN [err |-> c.err, stack |-> c.stack, out |-> out]
    ELSE [err |-> o.err, stack |-> c.stack, out |-> o]

\* The notification is delivered first, the stack is popped after it.
CommitTxNotifyFirst(t, stk, nr, em, subs, out) ==
    LET c == Close(stk, t)
        o == IF c.stack = <<>>
             THEN Handle(em[t], Terminal(nr[t]), subs, Sees(stk, out))
             ELSE out IN
    IF c.err # NoExc
    THEN [err |-> c.err, stack |-> c.stack, out |-> out]
    ELSE [err |-> o.err, stack |-> c.stack, out |-> o]

\* commit: close, then notify when the stack is empty.  An error of the
\* sink propagates, after the pop.
CommitTx(t, stk, nr, em, subs, out) ==
    LET c == Close(stk, t)
        o == IF c.stack = <<>>
             THEN Handle(em[t], Terminal(nr[t]), subs, Sees(c.stack, out))
             ELSE out IN
    IF c.err # NoExc
    THEN [err |-> c.err, stack |-> c.stack, out |-> out]
    ELSE [err |-> o.err, stack |-> c.stack, out |-> o]

\* No mark_rollback on an error.
ExitFlagsNoMark(t, isErr, stk, nr) == nr

\* __exit__, lines 120-124: the flags after the exit's conditional mark_rollback.
ExitFlags(t, isErr, stk, nr) ==
    IF isErr /\ ~nr[t] THEN MarkRollback(stk, nr) ELSE nr

\* What the caller of a scoped region sees propagate after __exit__:
\* the error of commit() if it raised, else the error the region was left by.
ExitExc(commitErr, e) == IF commitErr # NoExc THEN commitErr ELSE e

\* commit() in an else branch: an error exit marks but does not close.
ExitTxNoCloseOnError(t, e, stk, nr, em, subs, out) ==
    LET fl == ExitFlags(t, e # NoExc, stk, nr)
        c == CommitTx(t, stk, fl, em, subs, out) IN
    IF e # NoExc
    THEN [flags |-> fl, stack |-> stk, out |-> out, err |-> NoExc, exc |-> e]
    ELSE [flags |-> fl, stack |-> c.stack, out |-> c.out, err |-> c.err,
          exc |-> ExitExc(c.err, e)]

\* __exit__ as a whole: the conditional mark_rollback, then commit().
ExitTx(t, e, stk, nr, em, subs, out) ==
    LET fl == ExitFlags(t, e # NoExc, stk, nr)
        c == CommitTx(t, stk, fl, em, subs, out) IN
    [flags |-> fl, stack |-> c.stack, out |-> c.out, err |-> c.err,
     exc |-> ExitExc(c.err, e)]

\* The with block without the return.
WrapperResultNone(r) == "None"

\* _transactional: return func(*args, **kwargs) from inside the with block.
WrapperResult(r) == r

----------------------------------------------------------------------------
\* TxData and the tools (src/gaphor/diagram/tools/txtool.py).

\* transactional_tool(*tools, event_manager): the tools of one call share one
\* TxData.  Two calls: a1, a2 and a3 share d1, b1 has d2.
ToolData == [a1 |-> "d1", a2 |-> "d1", a3 |-> "d1", b1 |-> "d2"]

\* TxData.event_manager, as passed to transactional_tool.
DataEventManager == [d1 |-> "em1", d2 |-> "em2"]

\* TxData.begin: self.txs.append(Transaction(self.event_manager)), for the
\* transaction t that the constructor returned.
TxDataBegin(tl, t) == Append(tl, t)

\* The transaction begun first is the one committed.
TxDataCommitOldest(tl, stk, nr, em, subs, out) ==
    IF tl = <<>>
    THEN [txs |-> tl, err |-> AssertionError, stack |-> stk, out |-> out]
    ELSE LET r == CommitTx(Head(tl), stk, nr, em, subs, out) IN
         [txs |-> Tail(tl), err |-> r.err, stack |-> r.stack, out |-> r.out]

\* The committed transaction stays in txs.
TxDataCommitNoPop(tl, stk, nr, em, subs, out) ==
    IF tl = <<>>
    THEN [txs |-> tl, err |-> AssertionError, stack |-> stk, out |-> out]
    ELSE LET r == CommitTx(Top(tl), stk, nr, em, subs, out) IN
         [txs |-> tl, err |-> r.err, stack |-> r.stack, out |-> r.out]

\* TxData.commit: assert self.txs; tx = self.txs.pop(); tx.commit()
TxDataCommit(tl, stk, nr, em, subs, out) ==
    IF tl = <<>>
    THEN [txs |-> tl, err |-> AssertionError, stack |-> stk, out |-> out]
    ELSE LET r == CommitTx(Top(tl), stk, nr, em, subs, out) IN
         [txs |-> Front(tl), err |-> r.err, stack |-> r.stack, out |-> r.out]

----------------------------------------------------------------------------
\* History of the nesting chain (observation only).

\* The call has popped its transaction: _close raised nothing.
HasClosed(err) == err.type \notin {"TransactionError", "AssertionError"}

ShapeAfterOpen(stk, sh) ==
    IF stk = <<>> \/ sh = "opening" THEN "opening" ELSE "other"

ShapeAfterClose(ok, sh) ==
    IF ok /\ sh \in {"opening", "closing"} THEN "closing" ELSE "other"

----------------------------------------------------------------------------
InitWith(bad, ord) ==
    /\ stack = <<>>
    /\ need_rollback = [t \in TxIds |-> FALSE]
    /\ event_manager = [t \in TxIds |-> "em1"]
    /\ how = [t \in TxIds |-> "none"]
    /\ ntx = 0
    /\ subscribers = NoCalls
    /\ frames = <<>>
    /\ exc = NoExc
    /\ log = <<>>
    /\ calls = NoCalls
    /\ result = "none"
    /\ added = {}
    /\ closed = {}
    /\ chainStart = 0
    /\ chainFirst = 0
    /\ shape = "other"
    /\ marked = FALSE
    /\ touched = FALSE
    /\ errExit = FALSE
    /\ seen = 0
    /\ raising = bad
    /\ order = ord
    /\ txs = [d \in TxDatas |-> <<>>]
    /\ active = {}

\* No listener raises.
Init == InitWith({}, CHOOSE o \in Orders : TRUE)

\* Any of the listeners may raise, and the set iterates in any order.
InitFail == \E bad \in SUBSET Handlers, ord \in Orders : InitWith(bad, ord)

\* The effect of Transaction(sink).__init__ for the new transaction t.
\* A constructor that raises leaves no transaction behind ("failed").
Construct(t, sink, kind) ==
    LET x == InitTx(t, stack, need_rollback, sink, subscribers, Out) IN
    /\ ntx' = t
    /\ event_manager' = [event_manager EXCEPT ![t] = sink]
    /\ how' = [how EXCEPT ![t] = IF x.err = NoExc THEN kind ELSE "failed"]
    /\ need_rollback' = x.flags
    /\ log' = x.out.log
    /\ calls' = x.out.calls
    /\ seen' = x.out.seen
    /\ stack' = x.stack
    /\ exc' = x.err
    /\ IF x.err = NoExc
       THEN /\ shape' = ShapeAfterOpen(stack, shape)
            /\ chainStart' = IF stack = <<>> THEN Len(log) ELSE chainStart
            /\ chainFirst' = IF stack = <<>> THEN t ELSE chainFirst
            /\ marked' = (stack # <<>> /\ marked)
            /\ touched' = (stack # <<>> /\ touched)
            /\ errExit' = (stack # <<>> /\ errExit)
       ELSE UNCHANGED <<shape, chainStart, chainFirst, marked, touched, errExit>>

\* tx = Transaction(sink)
New(sink) ==
    /\ exc = NoExc
    /\ ntx < MaxTx
    /\ Construct(ntx + 1, sink, "manual")
    /\ UNCHANGED <<subscribers, frames, result, added, closed, env>>

\* tx.commit()
Commit(t) ==
    /\ exc = NoExc
    /\ how[t] = "manual"
    /\ LET r == CommitTx(t, stack, need_rollback, event_manager, subscribers,
                         Out) IN
       /\ stack' = r.stack
       /\ log' = r.out.log
       /\ calls' = r.out.calls
       /\ seen' = r.out.seen
       /\ exc' = r.err
       /\ closed' = IF HasClosed(r.err) THEN closed \cup {t} ELSE closed
       /\ shape' = ShapeAfterClose(r.err = NoExc, shape)
    /\ UNCHANGED <<need_rollback, event_manager, how, ntx, subscribers, frames,
                   result, added, chainStart, chainFirst, marked, touched, errExit,
                   env>>

\* tx.rollback(): mark_rollback(), then commit().
Rollback(t) ==
    /\ exc = NoExc
    /\ how[t] = "manual"
    /\ LET nr == MarkRollback(stack, need_rollback)
           r == CommitTx(t, stack, nr, event_manager, subscribers, Out) IN
       /\ need_rollback' = nr
       /\ stack' = r.stack
       /\ log' = r.out.log
       /\ calls' = r.out.calls
       /\ seen' = r.out.seen
       /\ exc' = r.err
       /\ closed' = IF HasClosed(r.err) THEN closed \cup {t} ELSE closed
       /\ shape' = ShapeAfterClose(r.err = NoExc, shape)
    /\ marked' = (marked \/ t \in Range(stack))
    /\ touched' = (touched \/ stack # <<>>)
    /\ UNCHANGED <<event_manager, how, ntx, subscribers, frames, result, added,
                   chainStart, chainFirst, errExit, env>>

\* tx.mark_rollback()
Mark(t) ==
    /\ exc = NoExc
    /\ how[t] = "manual"
    /\ need_rollback' = MarkRollback(stack, need_rollback)
    /\ shape' = "other"
    /\ marked' = (marked \/ t \in Range(stack))
    /\ touched' = (touched \/ stack # <<>>)
    /\ UNCHANGED <<stack, event_manager, how, ntx, subscribers, frames, exc,
                   log, calls, result, added, closed, chainStart, chainFirst,
                   errExit, seen, env>>

\* with Transaction(sink) as ctx:  /  a call of a @transactional function
Enter(sink, kind) ==
    /\ exc = NoExc
    /\ ntx < MaxTx
    /\ Len(frames) < MaxDepth
    /\ Construct(ntx + 1, sink, kind)
    /\ frames' = IF exc' = NoExc
                 THEN Append(frames, [kind |-> kind, tx |-> ntx + 1,
                                      logAt |-> Len(log), outer |-> (stack = <<>>)])
                 ELSE frames
    /\ UNCHANGED <<subscribers, result, added, closed, env>>

EnterWith(sink) == Enter(sink, "with")

EnterTransactional == Enter("subscribers", "txnal")

\* ctx.rollback() inside a with block: TransactionContext.rollback.
CtxRollback(i) ==
    /\ exc = NoExc
    /\ i \in DOMAIN frames
    /\ frames[i].kind = "with"
    /\ need_rollback' = MarkRollback(stack, need_rollback)
    /\ shape' = "other"
    /\ marked' = (marked \/ frames[i].tx \in Range(stack))
    /\ touched' = (touched \/ stack # <<>>)
    /\ UNCHANGED <<stack, event_manager, how, ntx, subscribers, frames, exc,
                   log, calls, result, added, closed, chainStart, chainFirst,
                   errExit, seen, env>>

\* The innermost scoped region is left, normally or by the error that is
\* propagating: __exit__ runs.  r is what the wrapped function returned.
Exit(r) ==
    /\ frames # <<>>
    /\ LET f == Top(frames)
           t == f.tx
           isErr == exc # NoExc
           x == ExitTx(t, exc, stack, need_rollback, event_manager, subscribers,
                       Out) IN
       /\ need_rollback' = x.flags
       /\ stack' = x.stack
       /\ log' = x.out.log
       /\ calls' = x.out.calls
       /\ seen' = x.out.seen
       /\ exc' = x.exc
       /\ IF f.kind = "txnal" /\ x.exc = NoExc
          THEN result' = WrapperResult(r)
          ELSE r = "r1" /\ result' = result
       /\ closed' = IF HasClosed(x.err) THEN closed \cup {t} ELSE closed
       /\ shape' = ShapeAfterClose(x.err = NoExc, shape)
       /\ marked' = (marked \/ (isErr /\ ~need_rollback[t] /\ t \in Range(stack)))
       /\ touched' = (touched \/ (isErr /\ stack # <<>>))
       /\ errExit' = (errExit \/ (isErr /\ stack # <<>>))
    /\ frames' = Front(frames)
    /\ UNCHANGED <<event_manager, how, ntx, subscribers, added, chainStart,
                   chainFirst, env>>

\* The code running now raises an error of its own.
Raise ==
    /\ exc = NoExc
    /\ frames # <<>>
    /\ exc' = AppError
    /\ UNCHANGED <<stack, need_rollback, event_manager, how, ntx, subscribers,
                   frames, log, calls, result, added, closed, chainStart,
                   chainFirst, shape, marked, touched, errExit, seen, env>>

\* The propagating error is caught by an except clause at the current level.
Catch ==
    /\ exc # NoExc
    /\ exc' = NoExc
    /\ UNCHANGED <<stack, need_rollback, event_manager, how, ntx, subscribers,
                   frames, log, calls, result, added, closed, chainStart,
                   chainFirst, shape, marked, touched, errExit, seen, env>>

\* subscribers.add(h)
Add(h) ==
    /\ exc = NoExc
    /\ subscribers' = RegistryAdd(subscribers, h)
    /\ added' = added \cup {h}
    /\ UNCHANGED <<stack, need_rollback, event_manager, how, ntx, frames, exc,
                   log, calls, result, closed, chainStart, chainFirst, shape,
                   marked, touched, errExit, seen, env>>

\* subscribers.discard(h)
Discard(h) ==
    /\ exc = NoExc
    /\ subscribers' = RegistryDiscard(subscribers, h).subs
    /\ exc' = RegistryDiscard(subscribers, h).err
    /\ added' = added \ {h}
    /\ UNCHANGED <<stack, need_rollback, event_manager, how, ntx, frames, log,
                   calls, result, closed, chainStart, chainFirst, shape, marked,
                   touched, errExit, seen, env>>

\* A gesture of the tool begins: on_begin calls tx_data.begin().
OnBegin(tool) ==
    /\ exc = NoExc
    /\ tool \notin active
    /\ ntx < MaxGestures
    /\ Construct(ntx + 1, DataEventManager[ToolData[tool]], ToolData[tool])
    /\ txs' = [txs EXCEPT ![ToolData[tool]] =
                 IF exc' = NoExc THEN TxDataBegin(@, ntx + 1) ELSE @]
    /\ active' = active \cup {tool}
    /\ UNCHANGED <<subscribers, frames, result, added, closed, raising, order>>

\* The gesture of the tool ends: on_end calls tx_data.commit().
OnEnd(tool) ==
    /\ exc = NoExc
    /\ tool \in active
    /\ LET d == ToolData[tool]
           r == TxDataCommit(txs[d], stack, need_rollback, event_manager,
                             subscribers, Out) IN
       /\ txs' = [txs EXCEPT ![d] = r.txs]
       /\ stack' = r.stack
       /\ log' = r.out.log
       /\ calls' = r.out.calls
       /\ seen' = r.out.seen
       /\ exc' = r.err
       /\ closed' = IF HasClosed(r.err) THEN closed \cup {Top(txs[d])} ELSE closed
       /\ shape' = ShapeAfterClose(r.err = NoExc, shape)
    /\ active' = active \ {tool}
    /\ UNCHANGED <<need_rollback, event_manager, how, ntx, subscribers, frames,
                   result, added, chainStart, chainFirst, marked, touched, errExit,
                   raising, order>>

\* Programs that use transactions bound to event managers.
Next ==
    \/ \E s \in EventManagers : New(s)
    \/ \E t \in TxIds : Commit(t)
    \/ \E t \in TxIds : Rollback(t)
    \/ \E t \in TxIds : Mark(t)
    \/ \E s \in EventManagers : EnterWith(s)
    \/ \E i \in 1..MaxDepth : CtxRollback(i)
    \/ \E r \in Results : Exit(r)
    \/ Raise
    \/ Catch

Spec == Init /\ [][Next]_vars

\* Programs that call @transactional functions and change the registry.
NextReg ==
    \/ New("subscribers")
    \/ \E t \in TxIds : Commit(t)
    \/ \E t \in TxIds : Mark(t)
    \/ EnterTransactional
    \/ \E r \in Results : Exit(r)
    \/ Raise
    \/ Catch
    \/ \E h \in Handlers : Add(h)
    \/ \E h \in Handlers : Discard(h)

SpecReg == Init /\ [][NextReg]_vars

\* Programs whose listeners may raise.
NextFail ==
    \/ New("subscribers")
    \/ \E t \in TxIds : Commit(t)
    \/ Catch
    \/ \E h \in Handlers : Add(h)
    \/ \E h \in Handlers : Discard(h)

SpecFail == InitFail /\ [][NextFail]_vars

\* The tools that share the TxData d1.
Tools1 == {tool \in Tools : ToolData[tool] = "d1"}

\* Gestures of the tools of one transactional_tool group.
NextTx1 ==
    \/ \E tool \in Tools1 : OnBegin(tool)
    \/ \E tool \in Tools1 : OnEnd(tool)

SpecTx1 == Init /\ [][NextTx1]_vars

\* Gestures of the tools of two groups; an error that a gesture's callback
\* raises is reported and dropped by the caller of the callback.
NextTx2 ==
    \/ \E tool \in Tools : OnBegin(tool)
    \/ \E tool \in Tools : OnEnd(tool)
    \/ Catch

SpecTx2 == Init /\ [][NextTx2]_vars

TypeOK ==
    /\ Range(stack) \subseteq 1..ntx
    /\ ntx \in 0..Cardinality(TxIds)
    /\ Len(frames) <= MaxDepth
    /\ \A h \in Handlers : subscribers[h] \in Nat

----------------------------------------------------------------------------
\* Observations the properties are stated with.

Terminals == {"TransactionCommit", "TransactionRollback"}

\* The notifications delivered since the current (or last) chain started.
ChainNotes == SubSeq(log, chainStart + 1, Len(log))

\* How many transactions the current (or last) chain has constructed.
ChainSize == IF chainFirst = 0 THEN 0 ELSE ntx - chainFirst + 1

\* A chain was opened and its stack is empty again.
ChainEnded == stack = <<>> /\ chainFirst > 0

Count(seq, evs) == Cardinality({i \in DOMAIN seq : seq[i].ev \in evs})

IsAscending(s) == \A i, j \in DOMAIN s : i < j => s[i] < s[j]

\* The invocations one handle call owes the handlers: one each to those whose
\* latest registry call was add.
OncePerAdded == [h \in Handlers |-> IF h \in added THEN 1 ELSE 0]

\* This step leaves the innermost scoped region.
ExitStep == \E r \in Results : Exit(r)

\* The innermost region's transaction is the top of the stack.
RegionOnTop == frames # <<>> /\ stack # <<>> /\ Top(stack) = Top(frames).tx

----------------------------------------------------------------------------
\* C1: a chain that consists of N >= 1 constructions followed by closes in
\* reverse order of construction, and nothing else, has delivered exactly
\* one TransactionBegin and then exactly one of TransactionCommit and
\* TransactionRollback when its stack is empty again.
C1_OneBeginOneTerminal ==
    /\ [][\A t \in TxIds :
            ((Commit(t) \/ Rollback(t)) /\ stack # <<>> /\ Top(stack) = t) =>
                (exc' = NoExc /\ stack' = Front(stack))]_vars
    /\ []((shape = "closing" /\ chainFirst..ntx \subseteq closed) =>
            /\ stack = <<>>
            /\ Len(ChainNotes) = 2
            /\ Count(ChainNotes, {"TransactionBegin"}) = 1
            /\ Count(ChainNotes, Terminals) = 1
            /\ ChainNotes[1].ev = "TransactionBegin")

\* A chain of two or more nested transactions closed in reverse order.
C1_Witness ==
    /\ stack = <<>>
    /\ shape = "closing"
    /\ ChainSize >= 2
    /\ Len(ChainNotes) = 2

C3_UntouchedChainCommits ==
    (ChainEnded /\ ~touched) =>
        /\ ChainNotes # <<>>
        /\ Top(ChainNotes).ev = "TransactionCommit"

\* An untouched chain has ended after an earlier chain ended in a rollback.
C3_Witness ==
    /\ ChainEnded
    /\ ~touched
    /\ chainStart >= 2
    /\ log[chainStart].ev = "TransactionRollback"
    /\ Top(log).ev = "TransactionCommit"

\* C4: commit() on a transaction that is not the top of a non-empty stack
\* raises TransactionError, leaves the stack as it was and delivers nothing.
C4_OutOfOrderCommit ==
    [][\A t \in TxIds :
        (Commit(t) /\ stack # <<>> /\ Top(stack) # t) =>
            /\ exc' = NotTopError(t)
            /\ stack' = stack
            /\ log' = log
            /\ calls' = calls]_vars

\* commit() (no flag is set, so not rollback()) has just failed on a
\* transaction below the top or already closed, with others still open.
C4_Witness ==
    /\ exc.type = "TransactionError"
    /\ exc = NotTopError(exc.by)
    /\ how[exc.by] = "manual"
    /\ Len(stack) >= 2
    /\ Top(stack) # exc.by
    /\ \A t \in Range(stack) : ~need_rollback[t]

\* C5: commit() and rollback() on an empty stack raise TransactionError,
\* deliver nothing and leave the stack empty.
C5_CloseOnEmptyStack ==
    [][\A t \in TxIds :
        ((Commit(t) \/ Rollback(t)) /\ stack = <<>>) =>
            /\ exc' = EmptyError(t)
            /\ stack' = <<>>
            /\ log' = log
            /\ calls' = calls]_vars

\* A second close of an already closed outermost transaction has just failed.
C5_Witness ==
    /\ exc = EmptyError(exc.by)
    /\ exc.by \in closed
    /\ stack = <<>>
    /\ Len(log) = 2

\* C6: the stack holds exactly the transactions constructed and not yet
\* successfully closed, in order of construction, and a close succeeds only
\* on its top.
C6_StackIsOpenTransactions ==
    /\ [](IsAscending(stack) /\ Range(stack) = (1..ntx) \ closed)
    /\ [][closed' # closed =>
            /\ stack # <<>>
            /\ closed' = closed \cup {Top(stack)}
            /\ stack' = Front(stack)]_vars

\* Closes that succeeded and a close that failed, with transactions open.
C6_Witness ==
    /\ Len(stack) >= 2
    /\ closed # {}
    /\ exc.type = "TransactionError"

\* This step leaves the innermost scoped region by the propagating error.
ErrorExitStep == ExitStep /\ exc # NoExc

\* The flags an error exit owes: every transaction on the stack is flagged,
\* unless the region's transaction was flagged already.
FlagsOwed(t) ==
    IF need_rollback[t]
    THEN need_rollback
    ELSE [u \in TxIds |-> need_rollback[u] \/ u \in Range(stack)]

\* A chain in which a scoped region was left by an error ends with
\* TransactionRollback.
ErrorExitRollsBack ==
    (stack = <<>> /\ errExit) =>
        /\ ChainNotes # <<>>
        /\ Top(ChainNotes).ev = "TransactionRollback"

\* C7 as stated: every error exit of a scoped region flags the stack, closes
\* the region's transaction and lets the original error propagate, and the
\* chain ends with TransactionRollback.
C7_Original ==
    /\ [][ErrorExitStep =>
            /\ need_rollback' = FlagsOwed(Top(frames).tx)
            /\ stack' = Front(stack)
            /\ closed' = closed \cup {Top(frames).tx}
            /\ exc' = exc]_vars
    /\ []ErrorExitRollsBack

\* C7, amended: every error exit flags the stack and the chain ends with
\* TransactionRollback; the exit closes the region's transaction and lets the
\* original error propagate when that transaction is the top of the stack.
C7_ErrorExit ==
    /\ [][ErrorExitStep => need_rollback' = FlagsOwed(Top(frames).tx)]_vars
    /\ [][(ErrorExitStep /\ RegionOnTop) =>
            /\ stack' = Front(stack)
            /\ closed' = closed \cup {Top(frames).tx}
            /\ exc' = exc]_vars
    /\ []ErrorExitRollsBack

\* An inner region was left by an error, the error was caught, every
\* enclosing region and transaction was closed without an error, and the
\* chain has ended.
C7_Witness ==
    /\ stack = <<>>
    /\ errExit
    /\ exc = NoExc
    /\ frames = <<>>
    /\ ChainSize >= 2
    /\ chainFirst..ntx \subseteq closed
    /\ Top(ChainNotes).ev = "TransactionRollback"

\* C8 as stated: every exit of a scoped region closes the region's
\* transaction: it was on the stack and is closed and removed by the exit.
C8_Original ==
    [][ExitStep =>
        LET t == Top(frames).tx IN
        /\ t \in Range(stack)
        /\ t \notin closed
        /\ t \notin Range(stack')
        /\ closed' = closed \cup {t}]_vars

\* C8, amended: an exit of a scoped region, normal or by error, whose
\* transaction is the top of the stack closes that transaction, once.
C8_ExitCloses ==
    [][(ExitStep /\ RegionOnTop) =>
        LET t == Top(frames).tx IN
        /\ t \notin closed
        /\ stack' = Front(stack)
        /\ t \notin Range(stack')
        /\ closed' = closed \cup {t}]_vars

\* A region left by an error and a region left normally were both closed by
\* their exits.
C8_Witness ==
    /\ errExit
    /\ \E t, u \in closed :
        /\ t # u
        /\ how[t] = "with"
        /\ how[u] = "with"
        /\ need_rollback[t]
        /\ ~need_rollback[u]

\* This step returns from (or raises out of) a @transactional call.
WrapperExitStep == ExitStep /\ Top(frames).kind = "txnal"

\* A @transactional call made on an empty stack delivers TransactionBegin,
\* once to every registered handler.
WrapperBegins ==
    [][(EnterTransactional /\ stack = <<>>) =>
        /\ log' = Append(log, [sink |-> "subscribers", ev |-> "TransactionBegin"])
        /\ calls' = OncePerAdded]_vars

\* What the call has delivered when it ends: the Begin of its entry and one
\* terminal notification, to every registered handler once, and the
\* function's result or error to the caller.
WrapperEnds ==
    LET f == Top(frames) IN
    /\ Len(log) = f.logAt + 1
    /\ log' = Append(log, [sink |-> "subscribers", ev |-> Top(log').ev])
    /\ log[f.logAt + 1] = [sink |-> "subscribers", ev |-> "TransactionBegin"]
    /\ Top(log').ev \in Terminals
    /\ calls' = OncePerAdded
    /\ exc # NoExc => Top(log').ev = "TransactionRollback"
    /\ (exc = NoExc /\ ~touched) => Top(log').ev = "TransactionCommit"
    /\ exc = NoExc => \A r \in Results : Exit(r) => result' = r
    /\ exc' = exc

\* A @transactional call made while a transaction is open delivers nothing.
NestedWrapperSilent ==
    /\ [][(EnterTransactional /\ stack # <<>>) =>
            (log' = log /\ calls' = calls)]_vars
    /\ [](\A i \in DOMAIN frames :
            (frames[i].kind = "txnal" /\ ~frames[i].outer) =>
                Len(log) = frames[i].logAt)
    /\ [][(WrapperExitStep /\ ~Top(frames).outer) =>
            (log' = log /\ calls' = calls)]_vars

\* C9 as stated: every @transactional call made on an empty stack delivers
\* Begin and then one terminal notification to every registered handler and
\* returns the function's result; a call made while a transaction is open
\* delivers nothing.
C9_Original ==
    /\ WrapperBegins
    /\ [][(WrapperExitStep /\ Top(frames).outer) => WrapperEnds]_vars
    /\ NestedWrapperSilent

\* C9, amended: the same, for the calls whose function has closed every
\* transaction it opened, so that the wrapper's transaction is the top of
\* the stack when the function returns or raises.
C9_Transactional ==
    /\ WrapperBegins
    /\ [][(WrapperExitStep /\ Top(frames).outer /\ RegionOnTop) =>
            WrapperEnds]_vars
    /\ NestedWrapperSilent

\* An outermost call has returned its function's result after Begin and
\* Commit went to both registered handlers, and before it a nested call
\* ended without a notification.
C9_Witness ==
    /\ stack = <<>>
    /\ frames = <<>>
    /\ exc = NoExc
    /\ result = "r2"
    /\ added = Handlers
    /\ calls = OncePerAdded
    /\ ChainSize >= 2
    /\ \A t \in chainFirst..ntx : how[t] = "txnal"
    /\ ChainNotes = <<[sink |-> "subscribers", ev |-> "TransactionBegin"],
                      [sink |-> "subscribers", ev |-> "TransactionCommit"]>>

\* C10: the registry is a set.  Every handle call invokes once each handler
\* whose latest registry call was add, and no other handler; discard of a
\* handler that is not registered raises nothing and changes nothing.
C10_RegistryIsSet ==
    /\ [][log' # log /\ Top(log').sink = "subscribers" =>
            calls' = OncePerAdded]_vars
    /\ [][\A h \in Handlers : (Add(h) /\ h \in added) =>
            subscribers' = subscribers]_vars
    /\ [][\A h \in Handlers : (Discard(h) /\ h \notin added) =>
            (subscribers' = subscribers /\ exc' = NoExc)]_vars

\* A handle call has invoked the one registered handler once and the
\* other, not registered, not at all.
C10_Witness ==
    /\ log # <<>>
    /\ Top(log).sink = "subscribers"
    /\ added = {"h1"}
    /\ calls = OncePerAdded

----------------------------------------------------------------------------
\* C11: the TransactionBegin notifications delivered so far are one more
\* than the terminal ones while the stack is not empty and as many when it
\* is empty; Begin and terminal notifications alternate, Begin first; a
\* close that leaves the stack non-empty delivers nothing.
C11_BeginTerminalBalance ==
    /\ [](/\ Count(log, {"TransactionBegin"}) - Count(log, Terminals)
               = (IF stack = <<>> THEN 0 ELSE 1)
           /\ \A i \in DOMAIN log :
                IF i % 2 = 1
                THEN log[i].ev = "TransactionBegin"
                ELSE log[i].ev \in Terminals)
    /\ [][(Len(stack') < Len(stack) /\ stack' # <<>>) => log' = log]_vars

\* A chain has ended and a second one is open, in which a nested
\* transaction was closed without a notification.
C11_Witness ==
    /\ Len(log) = 3
    /\ stack # <<>>
    /\ closed # {}
    /\ Top(stack) \notin closed
    /\ \E t \in closed : t > chainFirst

\* C12: delivery is ordered against the stack.  The sink handles
\* TransactionBegin before the new transaction is pushed and the terminal
\* notification after the closing transaction is popped: the stack is empty
\* whenever a sink handles a notification.
C12_DeliveryOrder ==
    /\ [](seen = 0)
    /\ [][(log' # log /\ Top(log').ev = "TransactionBegin") =>
            (stack = <<>> /\ seen' = 0 /\ stack' # <<>>)]_vars
    /\ [][(log' # log /\ Top(log').ev \in Terminals) =>
            (stack # <<>> /\ seen' = 0 /\ stack' = <<>>)]_vars

\* A chain of nested transactions has delivered its Begin and its terminal
\* notification, and both found the stack empty.
C12_Witness ==
    /\ Len(log) = 2
    /\ ChainSize >= 2
    /\ stack = <<>>
    /\ seen = 0

\* C13: a commit() or rollback() call that fails with TransactionError
\* changes nothing: the stack, the flag of every transaction and the
\* notifications delivered are what they were before the call.
C13_FailedCloseChangesNothing ==
    [][\A t \in TxIds :
        ((Commit(t) \/ Rollback(t)) /\ exc'.type = "TransactionError") =>
            /\ stack' = stack
            /\ need_rollback' = need_rollback
            /\ log' = log]_vars

\* This step is tx.mark_rollback() on transaction t, called directly or as
\* ctx.rollback() of the scoped region that holds t.
MarkStep(t) ==
    \/ Mark(t)
    \/ \E i \in DOMAIN frames : frames[i].tx = t /\ CtxRollback(i)

\* Nothing but flags changes in this step.
OnlyFlagsChange ==
    /\ stack' = stack
    /\ log' = log
    /\ calls' = calls
    /\ exc' = exc
    /\ closed' = closed

\* C14 as stated: mark_rollback() on any instance, open or already closed,
\* flags that instance and every transaction on the stack, and changes
\* nothing else.
C14_Original ==
    [][\A t \in TxIds : MarkStep(t) =>
        /\ need_rollback' = [u \in TxIds |->
                                need_rollback[u] \/ u = t \/ u \in Range(stack)]
        /\ OnlyFlagsChange]_vars

\* C14, amended: mark_rollback() flags every transaction that is on the
\* stack at the call, the instance itself when it is one of them, and
\* changes nothing else; a call that finds them all flagged changes nothing.
C14_MarkRollback ==
    /\ [][\A t \in TxIds : MarkStep(t) =>
            /\ need_rollback' = [u \in TxIds |->
                                    need_rollback[u] \/ u \in Range(stack)]
            /\ t \in Range(stack) => need_rollback'[t]
            /\ OnlyFlagsChange]_vars
    /\ [][\A t \in TxIds :
            (MarkStep(t) /\ \A u \in Range(stack) : need_rollback[u]) =>
                need_rollback' = need_rollback]_vars

\* mark_rollback() has flagged a stack of two transactions, and a
\* transaction that was closed before is not flagged.
C14_Witness ==
    /\ marked
    /\ shape = "other"
    /\ exc = NoExc
    /\ Len(stack) >= 2
    /\ Len(log) = 3
    /\ \A u \in Range(stack) : need_rollback[u]
    /\ \E u \in closed : ~need_rollback[u]

\* C15: in a chain of transactions bound to different sinks, the terminal
\* notification goes to the sink of the transaction whose close empties the
\* stack, which is the outermost transaction and the one whose sink received
\* TransactionBegin; the sinks of the inner transactions receive nothing.
C15_OutermostSink ==
    /\ [][(log' # log /\ Top(log').ev \in Terminals) =>
            /\ stack = <<chainFirst>>
            /\ closed' = closed \cup {chainFirst}
            /\ Top(log').sink = event_manager[chainFirst]]_vars
    /\ [](chainFirst > 0 =>
            /\ Len(ChainNotes) \in {1, 2}
            /\ \A i \in DOMAIN ChainNotes :
                 ChainNotes[i].sink = event_manager[chainFirst])

\* A chain whose inner transaction is bound to another sink than the
\* outermost one has ended: both notifications went to the outermost sink.
C15_Witness ==
    /\ ChainEnded
    /\ ChainSize >= 2
    /\ chainFirst..ntx \subseteq closed
    /\ Len(ChainNotes) = 2
    /\ event_manager[chainFirst] = "em2"
    /\ \E t \in (chainFirst + 1)..ntx : event_manager[t] = "em1"
    /\ \A i \in DOMAIN ChainNotes : ChainNotes[i].sink = "em2"

\* C16: the flag of a transaction is monotone.  It is false when the
\* transaction is constructed, no operation sets a true flag back to false,
\* and commit() changes no flag.
C16_FlagMonotone ==
    /\ [][\A t \in TxIds : need_rollback[t] => need_rollback'[t]]_vars
    /\ [][\A t \in TxIds :
            (how[t] = "none" /\ how'[t] # "none") => ~need_rollback'[t]]_vars
    /\ [][\A t \in TxIds : Commit(t) => need_rollback' = need_rollback]_vars

\* A flagged transaction was closed by a chain that rolled back, and a
\* later chain has constructed transactions: the old flag is still set,
\* the new transactions are not flagged.
C16_Witness ==
    /\ chainStart >= 2
    /\ log[chainStart].ev = "TransactionRollback"
    /\ Len(stack) >= 2
    /\ \E t \in closed : t < chainFirst /\ need_rollback[t]
    /\ \A t \in Range(stack) : ~need_rollback[t]

\* This step is a handle call of the registry.
RegistryHandleStep == log' # log /\ Top(log').sink = "subscribers"

\* C17: handle on the registry invokes every listener that is registered at
\* the time of the call, also when a listener raises.
C17_HandleReachesEveryListener ==
    [][RegistryHandleStep =>
        \A h \in Handlers : subscribers[h] > 0 => calls'[h] >= 1]_vars

\* The notification this step delivers to the registry is TransactionBegin.
BeginDelivered ==
    log' = Append(log, [sink |-> "subscribers", ev |-> "TransactionBegin"])

\* C18: a constructor whose delivery of TransactionBegin raises does not
\* push its transaction: the stack is empty after it, and the next
\* construction delivers TransactionBegin again.
C18_FailedBeginNotPushed ==
    /\ [][(New("subscribers") /\ exc' # NoExc) =>
            (stack = <<>> /\ stack' = <<>> /\ BeginDelivered)]_vars
    /\ [](\A t \in TxIds : how[t] = "failed" => t \notin Range(stack))
    /\ [][(New("subscribers") /\ ntx > 0 /\ how[ntx] = "failed") =>
            BeginDelivered]_vars

\* A constructor failed while a listener raised on TransactionBegin; the
\* next constructor delivered TransactionBegin again and pushed.
C18_Witness ==
    /\ ntx >= 2
    /\ how[ntx - 1] = "failed"
    /\ how[ntx] = "manual"
    /\ stack = <<ntx>>
    /\ Len(log) >= 2
    /\ log[Len(log) - 1].ev = "TransactionBegin"
    /\ Top(log).ev = "TransactionBegin"

\* The transactions on the stack that the TxData d constructed, in order.
OnStackOf(d) == SelectSeq(stack, LAMBDA t : how[t] = d)

\* The gestures of the tools of d that have begun and not ended.
ActiveOf(d) == {tool \in active : ToolData[tool] = d}

\* The notifications are Begin, terminal, Begin, ... in turn.
Alternates ==
    \A i \in DOMAIN log :
        IF i % 2 = 1
        THEN log[i].ev = "TransactionBegin"
        ELSE log[i].ev \in Terminals

\* C19: with one TxData and its tools, gestures overlapping or not, every
\* TxData.commit() finds txs non-empty, pops the transaction begun last and
\* commits it without an error; txs is the part of the stack this TxData
\* constructed, in the same order; when every gesture has ended the stack is
\* empty and every chain has delivered one Begin and one terminal
\* notification.
C19_SingleTxData ==
    /\ [][\A tool \in Tools1 : OnEnd(tool) =>
            /\ txs["d1"] # <<>>
            /\ Top(txs["d1"]) = Top(stack)
            /\ \A t \in Range(txs["d1"]) : t <= Top(txs["d1"])
            /\ txs'["d1"] = Front(txs["d1"])
            /\ stack' = Front(stack)
            /\ closed' = closed \cup {Top(txs["d1"])}
            /\ exc' = NoExc]_vars
    /\ [](/\ txs["d1"] = OnStackOf("d1")
           /\ txs["d1"] = stack
           /\ Len(txs["d1"]) = Cardinality(ActiveOf("d1"))
           /\ exc = NoExc)
    /\ [](active = {} =>
            /\ stack = <<>>
            /\ Alternates
            /\ Len(log) % 2 = 0
            /\ ChainEnded => Len(ChainNotes) = 2)

\* Three tools of the group had gestures open at once, a chain of three
\* nested transactions; all have ended, and a chain before this one too.
C19_Witness ==
    /\ active = {}
    /\ stack = <<>>
    /\ ChainSize = 3
    /\ Len(log) = 4
    /\ 1..ntx \subseteq closed
    /\ Top(log).ev = "TransactionCommit"

\* The transactions on the stack that no TxData holds in its txs any more.
Orphans == Range(stack) \ UNION {Range(txs[d]) : d \in TxDatas}

\* The gesture that ends belongs to the group whose TxData began the
\* transaction on top of the stack.
EndsOnTop(tool) ==
    /\ txs[ToolData[tool]] # <<>>
    /\ stack # <<>>
    /\ Top(txs[ToolData[tool]]) = Top(stack)

\* All gestures have ended: the stack is empty and the terminal notification
\* has been delivered.
AllEndedAllClosed ==
    /\ stack = <<>>
    /\ log # <<>> => Top(log).ev \in Terminals

\* C20 as stated: with two TxData on the one stack, every TxData.commit()
\* succeeds however the gestures of the two groups interleave, and when all
\* gestures have ended the stack is empty and the terminal notification has
\* been delivered.
C20_Original ==
    /\ [][\A tool \in Tools : OnEnd(tool) => exc' = NoExc]_vars
    /\ [](active = {} => AllEndedAllClosed)

\* C20, amended: every TxData.commit() finds txs non-empty; it succeeds
\* when the transaction it pops is the top of the stack, and raises
\* TransactionError, leaving that transaction on the stack for good, when a
\* transaction of the other group (or one that an earlier failed end left
\* behind) is above it.  When no end has come out of order the stack is
\* empty and the terminal notification delivered once all gestures have
\* ended.
C20_TwoTxData ==
    /\ [][\A tool \in Tools : OnEnd(tool) =>
            /\ txs[ToolData[tool]] # <<>>
            /\ txs'[ToolData[tool]] = Front(txs[ToolData[tool]])]_vars
    /\ [][\A tool \in Tools : (OnEnd(tool) /\ EndsOnTop(tool)) =>
            /\ exc' = NoExc
            /\ stack' = Front(stack)
            /\ Orphans' = Orphans]_vars
    /\ [][\A tool \in Tools : (OnEnd(tool) /\ ~EndsOnTop(tool)) =>
            /\ exc' = NotTopError(Top(txs[ToolData[tool]]))
            /\ how[Top(stack)] # ToolData[tool] \/ Top(stack) \in Orphans
            /\ stack' = stack
            /\ log' = log
            /\ Orphans' = Orphans \cup {Top(txs[ToolData[tool]])}]_vars
    /\ [][Orphans \subseteq Orphans']_vars
    /\ []((active = {} /\ Orphans = {}) => AllEndedAllClosed)
    /\ [](\A d \in TxDatas :
            /\ Len(txs[d]) = Cardinality(ActiveOf(d))
            /\ Orphans = {} => txs[d] = OnStackOf(d))

\* Gestures of both groups were open at once, the one inside the other;
\* all have ended in order, and the chain has committed.
C20_Witness ==
    /\ active = {}
    /\ Orphans = {}
    /\ ChainEnded
    /\ ChainSize >= 3
    /\ chainFirst..ntx \subseteq closed
    /\ \E t, u \in chainFirst..ntx : how[t] = "d1" /\ how[u] = "d2"
    /\ Top(log).ev = "TransactionCommit"
====
